---- MODULE Spec2Model ----
(***************************************************************************)
(* Round-robin database of adeadman/rrd-tool: the engine                   *)
(* (round_robin/__init__.py, RoundRobinDb.save / minutes / hours) over its *)
(* two storage backends, SqliteRoundRobinDb (round_robin/db.py) and        *)
(* RedisRoundRobinDb (round_robin/redisdb.py).                             *)
(*                                                                         *)
(* The code is Python 2 (xrange, db.py:75): min(None, x) is None.          *)
(* Timestamps are seconds; values (REAL) are modelled by naturals.         *)
(* Truncation goes through the local time of the process: the time zone is *)
(* a fixed offset from UTC, chosen when the process starts.                *)
(***************************************************************************)
EXTENDS Integers, Sequences, FiniteSets

\* Python's None (SQL NULL, an unset Redis key); below every timestamp, value and index.
None == -999

\* ------------------------------------------------------------------ bounds
\* General specification: number of save calls per behaviour.
MaxSaves == 3
\* Consecutive-minute specification: number of saves in the run (wraps the 60 ring).
MaxRun == 62
\* Consecutive-hour specification: number of saves in the run (wraps the 24 ring).
MaxHourRun == 26

VARIABLES
    utc_offset,           \* seconds the process's local time is ahead of UTC
    backend,              \* "sqlite" | "redis": the class of the instance
    Minutes,              \* TABLE Minutes (Id -> Timestamp, Value) / keys min0..min59
    Hours,                \* TABLE Hours   (Id -> Timestamp, Value) / keys hour0..hour23
    db_last_timestamp,    \* Redis key "last_timestamp" (None: unset; unused by sqlite)
    memo_last_timestamp,  \* SqliteRoundRobinDb._last_timestamp (None: not memoized)
    mins_cache,           \* RedisRoundRobinDb._mins_cache
    hours_cache,          \* RedisRoundRobinDb._hours_cache
    call,                 \* the last call made on the instance and its arguments
    outcome,              \* how it ended: "ok" or the exception raised
    data,                 \* the `data` dictionary the last save built (save_timestamps' input)
    ret,                  \* what the last query or backend method returned, as a list
    writes,               \* the writes the last call made on the store, in order
    saves,                \* history: the (minute, value) of every save that returned normally
    raised                \* history: whether some save has raised an exception

vars == << utc_offset, backend, Minutes, Hours, db_last_timestamp, memo_last_timestamp,
           mins_cache, hours_cache, call, outcome, data, ret, writes, saves, raised >>

\* ------------------------------------------------------------- primitives
Sample(ts, val) == [ts |-> ts, val |-> val]

MinuteIds == 0 .. 59
HourIds == 0 .. 23

\* mins = [(i, None, None) for i in xrange(60)]
EmptyMinutes == [i \in MinuteIds |-> Sample(None, None)]
\* hours = [(i, None, None) for i in xrange(24)]
EmptyHours == [i \in HourIds |-> Sample(None, None)]

SetMin(S) == CHOOSE x \in S : \A y \in S : x <= y
SetMax(S) == CHOOSE x \in S : \A y \in S : x >= y
IntMin(a, b) == IF a <= b THEN a ELSE b

\* Python 2 min(a, b): None orders below every number.
PyMin(a, b) == IF a = None \/ b = None THEN None ELSE IntMin(a, b)

\* timestamp_to_time: the naive local datetime, as seconds of local time.
timestamp_to_time(t) == t + utc_offset
\* time_to_timestamp: strftime('%s') of a naive local datetime.
time_to_timestamp(local) == local - utc_offset

\* .replace(second=0, microsecond=0) and .replace(minute=0, second=0, microsecond=0)
\* on the local datetime, and back.
timestamp_minute(t) ==
    time_to_timestamp(timestamp_to_time(t) - (timestamp_to_time(t) % 60))
timestamp_hour(t) ==
    time_to_timestamp(timestamp_to_time(t) - (timestamp_to_time(t) % 3600))

\* len(range(start, stop, step)) for step > 0
RangeLen(start, stop, step) ==
    IF stop > start THEN (stop - start + step - 1) \div step ELSE 0

\* [(base - t, None) for t in range(step, stop, step)], reversed: oldest first.
ElapsedValues(base, stop, step) ==
    LET n == RangeLen(step, stop, step)
    IN  [i \in 1 .. n |-> Sample(base - step * (n - i + 1), None)]

\* Truthiness of `if self.last_timestamp:` -- None and 0 are both false.
Truthy(x) == x # None /\ x # 0

\* values[(ix + 1):] + values[:(ix + 1)] on a Python list (1-based sequence here).
Rotate(values, ix) ==
    LET n == Len(values)
        k == IntMin(ix + 1, n)
    IN  SubSeq(values, k + 1, n) \o SubSeq(values, 1, k)

\* The table as the list of its rows in id order.
Rows(table, n) == [i \in 1 .. n |-> table[i - 1]]

\* The one element of a singleton set.  Bind({F(x) : x \in {e}}) is F(e) with e
\* evaluated once: the way a local variable of the code holds a call's result.
Bind(S) == CHOOSE x \in S : TRUE

\* table.lower() of the two ring names; every caller in the engine passes one of them.
TableNames == {"minutes", "hours"}

\* The name check left out: every name passes.
accept_tablename(name) == TRUE

\* assert(name.lower() == "minutes" or name.lower() == "hours")
validate_tablename(name) == name \in TableNames

\* ------------------------------------------------- the backend instance
\* The store and the instance's in-process fields as one value, threaded
\* through the calls of one handler.
NoMinsCache == [valid |-> FALSE, data |-> EmptyMinutes]
NoHoursCache == [valid |-> FALSE, data |-> EmptyHours]

DbState ==
    [backend |-> backend, Minutes |-> Minutes, Hours |-> Hours,
     last |-> db_last_timestamp, memo |-> memo_last_timestamp,
     mins_cache |-> mins_cache, hours_cache |-> hours_cache,
     log |-> << >>]

\* An instance of class `kind` just constructed on an empty store.
FreshDb(kind) ==
    [backend |-> kind, Minutes |-> EmptyMinutes, Hours |-> EmptyHours,
     last |-> None, memo |-> None,
     mins_cache |-> NoMinsCache, hours_cache |-> NoHoursCache,
     log |-> << >>]

\* A new instance opened on the store another instance left behind: the rows
\* and keys persist (_check_and_init_db finds the tables, _init_db finds the
\* "initialized" key); the memo and the caches start unset.
Reopen(db) ==
    [db EXCEPT !.memo = None, !.mins_cache = NoMinsCache, !.hours_cache = NoHoursCache,
               !.log = << >>]

\* The writes of a call in the order the backend performs them: "update" is
\* one slot overwritten by update_timestamp, "batch" one loop of
\* save_timestamps, "commit" a connection.commit(), "set" the last_timestamp key.
Logged(db, w, table) == [db EXCEPT !.log = Append(@, [w |-> w, table |-> table])]
\* A loop over an empty batch writes nothing.
LoggedBatch(db, batch, table) == IF batch = << >> THEN db ELSE Logged(db, "batch", table)

TableOf(db, table) == IF table = "minutes" THEN db.Minutes ELSE db.Hours
WithTable(db, table, t) ==
    IF table = "minutes" THEN [db EXCEPT !.Minutes = t] ELSE [db EXCEPT !.Hours = t]

\* for ix in range(len(batch)): write(slots, (ix + start_index) % modulus, batch[ix])
\* The loop's result slot by slot: the last sample of the batch written to the
\* slot, if any.  A slot the store does not have is not in DOMAIN slots: a write
\* to it changes nothing.
WriteLoop(slots, batch, start_index, modulus) ==
    Bind({ [id \in DOMAIN slots |->
               LET ixs == {ix \in 0 .. Len(b) - 1 : (ix + s) % modulus = id}
               IN  IF ixs = {} THEN old[id] ELSE b[SetMax(ixs) + 1]]
           : old \in {slots}, b \in {batch}, s \in {start_index} })

\* ---------------------------------------------------- SqliteRoundRobinDb
\* The UPDATE without its WHERE clause: every row is set.
Sqlite_update_every_row(rows, id, timestamp, value) ==
    [i \in DOMAIN rows |-> Sample(timestamp, value)]

\* UPDATE <table> SET Timestamp=?, Value=? WHERE Id=?  -- no row with that Id: no effect.
Sqlite_update_table_row(rows, id, timestamp, value) ==
    IF id \in DOMAIN rows THEN [rows EXCEPT ![id] = Sample(timestamp, value)] ELSE rows

\* SELECT timestamp FROM Minutes ORDER BY timestamp DESC LIMIT 1  (NULL sorts last).
Sqlite_select_last(rows) ==
    LET present == {rows[i].ts : i \in DOMAIN rows} \ {None}
    IN  IF present = {} THEN None ELSE SetMax(present)

\* The memoized property: once a non-None value is held it is returned for good.
Sqlite_last_timestamp(db) ==
    Bind({ [val |-> v, db |-> [db EXCEPT !.memo = v]]
           : v \in {IF db.memo # None THEN db.memo ELSE Sqlite_select_last(db.Minutes)} })

\* SELECT id FROM <table> WHERE timestamp=?; fetchone()  (timestamp = NULL matches
\* nothing; the scan is in rowid order, so the first row is the lowest id).
Sqlite_get_timestamp_index(db, timestamp, table, default) ==
    IF ~validate_tablename(table)
    THEN [exc |-> "AssertionError", val |-> None, db |-> db]
    ELSE LET rows == TableOf(db, table)
             ids == {i \in DOMAIN rows : timestamp # None /\ rows[i].ts = timestamp}
         IN  [exc |-> "", val |-> IF ids = {} THEN default ELSE SetMin(ids), db |-> db]

\* SELECT value FROM <table> WHERE Id=?; fetchone()[0] -- no row: None[0], a TypeError.
Sqlite_get_timestamp_value(db, table, timestamp) ==
    Bind({ IF ix.exc # ""
           THEN [exc |-> ix.exc, val |-> None, db |-> db]
           ELSE IF ix.val = None
           THEN [exc |-> "TypeError", val |-> None, db |-> db]
           ELSE [exc |-> "", val |-> TableOf(db, table)[ix.val].val, db |-> db]
           : ix \in {Sqlite_get_timestamp_index(db, timestamp, table, None)} })

Sqlite_update_timestamp(db, table, timestamp, value) ==
    Bind({ IF ts_index.exc # ""
           THEN [exc |-> ts_index.exc, db |-> db]
           ELSE IF ts_index.val = None
           THEN [exc |-> "ValueError", db |-> db]
           ELSE [exc |-> "",
                 db |-> Logged(Logged(WithTable(db, table,
                                 Sqlite_update_table_row(TableOf(db, table), ts_index.val,
                                                         timestamp, value)),
                               "update", table), "commit", "")]
           : ts_index \in {Sqlite_get_timestamp_index(db, timestamp, table, None)} })

\* The modulus of the Hours loop (db.py:173).
Sqlite_hours_modulus == 60

\* save_timestamps, the Minutes loop (db.py:163-166).
Sqlite_save_minutes(db, batch) ==
    Bind({ LoggedBatch([lt.db EXCEPT !.Minutes =
                      WriteLoop(lt.db.Minutes, batch,
                                Sqlite_get_timestamp_index(lt.db, lt.val, "minutes", -1).val + 1, 60)],
                  batch, "minutes")
           : lt \in {Sqlite_last_timestamp(db)} })

\* save_timestamps, the Hours loop (db.py:170-173).  last_hour_timestamp reads
\* last_timestamp again, after the Minutes rows were written on this connection.
Sqlite_save_hours(db, batch) ==
    Bind({ LoggedBatch([lt.db EXCEPT !.Hours =
                      WriteLoop(lt.db.Hours, batch,
                                Sqlite_get_timestamp_index(lt.db,
                                    IF lt.val = None THEN None ELSE timestamp_hour(lt.val),
                                    "hours", -1).val + 1,
                                Sqlite_hours_modulus)],
                  batch, "hours")
           : lt \in {Sqlite_last_timestamp(db)} })

\* The two loops the other way round: the Hours rows before the Minutes rows.
Sqlite_save_hours_first(db, d) ==
    [exc |-> "",
     db |-> Logged(Bind({ Sqlite_save_minutes(db1, d.minutes)
                          : db1 \in {Sqlite_save_hours(db, d.hours)} }),
                   "commit", "")]

\* save_timestamps (db.py:161-175): the Minutes loop, the Hours loop, one commit.
Sqlite_save_timestamps(db, d) ==
    [exc |-> "",
     db |-> Logged(Bind({ Sqlite_save_hours(db1, d.hours)
                          : db1 \in {Sqlite_save_minutes(db, d.minutes)} }),
                   "commit", "")]

Sqlite_read_all(db, table) ==
    IF table \notin TableNames
    THEN [exc |-> "ValueError", val |-> << >>, db |-> db]
    ELSE [exc |-> "",
          val |-> Rows(TableOf(db, table), IF table = "minutes" THEN 60 ELSE 24),
          db |-> db]

\* ----------------------------------------------------- RedisRoundRobinDb
\* The cache dictionary {ts: (ix, val)} built from the set keys base0..base<length-1>,
\* held as the snapshot of the keys it was built from.  A timestamp held by two
\* keys maps to the later one (a dict comprehension keeps the last item).
Redis_get_filtered_cache(keys) == [valid |-> TRUE, data |-> keys]

Redis_get_minutes(db) ==
    IF db.mins_cache.valid THEN db
    ELSE [db EXCEPT !.mins_cache = Redis_get_filtered_cache(db.Minutes)]

Redis_get_hours(db) ==
    IF db.hours_cache.valid THEN db
    ELSE [db EXCEPT !.hours_cache = Redis_get_filtered_cache(db.Hours)]

\* The instance after _get_minutes() / _get_hours(), and the cache it returned.
Redis_load(db, table) ==
    IF table = "minutes" THEN Redis_get_minutes(db) ELSE Redis_get_hours(db)

Redis_cache(db, table) ==
    IF table = "minutes" THEN Redis_get_minutes(db).mins_cache.data
    ELSE Redis_get_hours(db).hours_cache.data

\* Whether key i is an item of the dictionary: set, and the last one of its timestamp.
Redis_is_item(cache, i) ==
    /\ cache[i].ts # None
    /\ \A j \in DOMAIN cache : j > i => cache[j].ts # cache[i].ts

\* [(ts, val) for ts, (ix, val) in sorted(data.items(), key=ix)]
Redis_read_all(db, table) ==
    IF table \notin TableNames
    THEN [exc |-> "ValueError", val |-> << >>, db |-> db]
    ELSE
    Bind({ [exc |-> "",
            val |-> LET Item(e) == Redis_is_item(cache, e.ix)
                    IN  Bind({ [k \in 1 .. Len(items) |-> items[k].s]
                               : items \in {SelectSeq([i \in 1 .. Cardinality(DOMAIN cache) |->
                                                [ix |-> i - 1, s |-> cache[i - 1]]], Item)} }),
            db |-> Redis_load(db, table)]
           : cache \in {Redis_cache(db, table)} })

\* int(self.db.get("last_timestamp")), None when the key is unset.
Redis_last_timestamp(db) == [val |-> db.last, db |-> db]

\* self._get_minutes().get(timestamp): (ix, val), or None (found = FALSE)
Redis_get_timestamp_data(db, timestamp, table) ==
    Bind({ Bind({ [found |-> ixs # {},
                   ix |-> IF ixs = {} THEN None ELSE SetMax(ixs),
                   val |-> IF ixs = {} THEN None ELSE cache[SetMax(ixs)].val,
                   db |-> Redis_load(db, table)]
                  : ixs \in {{i \in DOMAIN cache : cache[i].ts # None /\ cache[i].ts = timestamp}} })
           : cache \in {Redis_cache(db, table)} })

Redis_get_timestamp_index(db, timestamp, table, default) ==
    IF ~validate_tablename(table)
    THEN [exc |-> "AssertionError", val |-> None, db |-> db]
    ELSE
    Bind({ [exc |-> "", val |-> IF ~ts_data.found THEN default ELSE ts_data.ix, db |-> ts_data.db]
           : ts_data \in {Redis_get_timestamp_data(db, timestamp, table)} })

Redis_get_timestamp_value(db, table, timestamp) ==
    IF ~validate_tablename(table)
    THEN [exc |-> "AssertionError", val |-> None, db |-> db]
    ELSE
    Bind({ [exc |-> "", val |-> IF ~ts_data.found THEN None ELSE ts_data.val, db |-> ts_data.db]
           : ts_data \in {Redis_get_timestamp_data(db, timestamp, table)} })

\* self.db.set(keybase + str(index), (timestamp, value)): the caches are left as they are.
Redis_update(db, table, index, timestamp, value) ==
    Logged(WithTable(db, table, [TableOf(db, table) EXCEPT ![index] = Sample(timestamp, value)]),
           "update", table)

Redis_update_timestamp(db, table, timestamp, value) ==
    IF ~validate_tablename(table)
    THEN [exc |-> "AssertionError", db |-> db]
    ELSE
    Bind({ IF ts_index.val = None
           THEN [exc |-> "ValueError", db |-> ts_index.db]
           ELSE [exc |-> "", db |-> Redis_update(ts_index.db, table, ts_index.val, timestamp, value)]
           : ts_index \in {Redis_get_timestamp_index(db, timestamp, table, None)} })

\* save_timestamps, one loop: start_index from the cache, then _update per sample.
Redis_write_keys(db, table, batch, timestamp, modulus) ==
    Bind({ LoggedBatch(WithTable(ix.db, table,
                                 WriteLoop(TableOf(ix.db, table), batch, ix.val + 1, modulus)),
                       batch, table)
           : ix \in {Redis_get_timestamp_index(db, timestamp, table, -1)} })

Redis_save_timestamps(db, d) ==
    Bind({ [exc |-> "",
            db |-> Logged([db2 EXCEPT !.last = d.minutes[Len(d.minutes)].ts,
                                      !.mins_cache = NoMinsCache,
                                      !.hours_cache = NoHoursCache],
                          "set", "last_timestamp")]
           : db2 \in {Bind({ Redis_write_keys(db1, "hours", d.hours,
                                 IF db.last = None THEN None ELSE timestamp_hour(db.last), 24)
                             : db1 \in {Redis_write_keys(db, "minutes", d.minutes, db.last, 60)} })} })

\* --------------------------------------- the abstract methods, by class
last_timestamp(db) ==
    IF db.backend = "sqlite" THEN Sqlite_last_timestamp(db) ELSE Redis_last_timestamp(db)

get_timestamp_index(db, timestamp, table, default) ==
    IF db.backend = "sqlite" THEN Sqlite_get_timestamp_index(db, timestamp, table, default)
    ELSE Redis_get_timestamp_index(db, timestamp, table, default)

get_timestamp_value(db, table, timestamp) ==
    IF db.backend = "sqlite" THEN Sqlite_get_timestamp_value(db, table, timestamp)
    ELSE Redis_get_timestamp_value(db, table, timestamp)

update_timestamp(db, table, timestamp, value) ==
    IF db.backend = "sqlite" THEN Sqlite_update_timestamp(db, table, timestamp, value)
    ELSE Redis_update_timestamp(db, table, timestamp, value)

save_timestamps(db, d) ==
    IF db.backend = "sqlite" THEN Sqlite_save_timestamps(db, d) ELSE Redis_save_timestamps(db, d)

read_all(db, table) ==
    IF db.backend = "sqlite" THEN Sqlite_read_all(db, table) ELSE Redis_read_all(db, table)

\* ------------------------------------------------- RoundRobinDb (engine)
last_hour_timestamp(db) ==
    Bind({ [val |-> IF lt.val = None THEN None ELSE timestamp_hour(lt.val), db |-> lt.db]
           : lt \in {last_timestamp(db)} })

\* values[(ix + 1):] + values[:(ix + 1)] around the index of `last`, default 0.
RotateAround(db, values, last, table) ==
    Bind({ [val |-> Rotate(values, last_entry_index.val), db |-> last_entry_index.db]
           : last_entry_index \in {get_timestamp_index(db, last, table, 0)} })

\* The minutes property: read_all, then the rotation around the last entry.
minutes(db) ==
    Bind({ Bind({ RotateAround(lt.db, values.val, lt.val, "minutes")
                  : lt \in {last_timestamp(values.db)} })
           : values \in {read_all(db, "minutes")} })

hours(db) ==
    Bind({ Bind({ RotateAround(lht.db, values.val, lht.val, "hours")
                  : lht \in {last_hour_timestamp(values.db)} })
           : values \in {read_all(db, "hours")} })

\* A query that stores the ring it read one slot further round.
query_moving_data(db, table) ==
    Bind({ [val |-> r.val,
            db |-> WithTable(r.db, table,
                     [i \in DOMAIN TableOf(r.db, table) |->
                        TableOf(r.db, table)[(i + 1) % Cardinality(DOMAIN TableOf(r.db, table))]])]
           : r \in {IF table = "minutes" THEN minutes(db) ELSE hours(db)} })

\* query: getattr(self, table) (lines 118-119).
query(db, table) == IF table = "minutes" THEN minutes(db) ELSE hours(db)

NoData == [minutes |-> << >>, hours |-> << >>]

\* self.update_timestamp(table, ts, min(self.get_timestamp_value(table, ts), value))
FoldInto(db, table, ts, value) ==
    Bind({ IF old.exc # "" THEN [exc |-> old.exc, db |-> old.db]
           ELSE update_timestamp(old.db, table, ts, PyMin(old.val, value))
           : old \in {get_timestamp_value(db, table, ts)} })

\* The placeholders with a new database taken to have been last saved at the epoch.
MinuteElapsedSinceEpoch(minute_ts, lt) ==
    LET elapsed_secs == IF Truthy(lt) THEN minute_ts - lt ELSE minute_ts
    IN  ElapsedValues(minute_ts, IntMin(elapsed_secs, 60 * 60), 60)

\* elapsed_values of save (lines 147-157): the minute placeholders.
MinuteElapsedValues(minute_ts, lt) ==
    LET elapsed_secs == IF Truthy(lt) THEN minute_ts - lt ELSE 0
    IN  ElapsedValues(minute_ts, IntMin(elapsed_secs, 60 * 60), 60)

\* elapsed_hour_values of save (lines 168-176): the hour placeholders.
HourElapsedValues(minute_ts, hour_ts, lht) ==
    LET elapsed_secs == IF lht # None THEN minute_ts - lht ELSE 0
    IN  ElapsedValues(hour_ts, IntMin(elapsed_secs, 24 * 60 * 60), 60 * 60)

\* save, the branch of a same-minute timestamp (lines 129-139).
SaveSameMinute(db, minute_ts, hour_ts, value) ==
    Bind({ IF m.exc # "" THEN [exc |-> m.exc, db |-> m.db, data |-> NoData]
           ELSE Bind({ [exc |-> h.exc, db |-> h.db, data |-> NoData]
                       : h \in {FoldInto(m.db, "hours", hour_ts, value)} })
           : m \in {FoldInto(db, "minutes", minute_ts, value)} })

\* save, the branch of a new minute (lines 140-188); lt is last_timestamp.
SaveNewMinute(db, lt, minute_ts, hour_ts, value) ==
    Bind({ Bind({
             IF hour_ts = lht.val
             THEN Bind({ IF h.exc # ""
                         THEN [exc |-> h.exc, db |-> h.db,
                               data |-> [minutes |-> data_minutes, hours |-> << >>]]
                         ELSE [exc |-> "",
                               db |-> save_timestamps(h.db,
                                         [minutes |-> data_minutes, hours |-> << >>]).db,
                               data |-> [minutes |-> data_minutes, hours |-> << >>]]
                         : h \in {FoldInto(lht.db, "hours", hour_ts, value)} })
             ELSE Bind({ [exc |-> "", db |-> save_timestamps(lht.db, d).db, data |-> d]
                         : d \in {[minutes |-> data_minutes,
                                   hours |-> HourElapsedValues(minute_ts, hour_ts, lht.val)
                                             \o << Sample(hour_ts, value) >>]} })
             : data_minutes \in {MinuteElapsedValues(minute_ts, lt) \o << Sample(minute_ts, value) >>} })
           : lht \in {last_hour_timestamp(db)} })

\* RoundRobinDb.save: the exception raised ("" for none), the instance after
\* it, and the data dictionary built.
save(db, timestamp, value) ==
    Bind({ IF lt.val # None /\ timestamp_minute(timestamp) < lt.val
           THEN [exc |-> "ValueError", db |-> lt.db, data |-> NoData]
           ELSE IF timestamp_minute(timestamp) = lt.val
           THEN SaveSameMinute(lt.db, timestamp_minute(timestamp), timestamp_hour(timestamp), value)
           ELSE SaveNewMinute(lt.db, lt.val, timestamp_minute(timestamp),
                              timestamp_hour(timestamp), value)
           : lt \in {last_timestamp(db)} })

\* ---------------------------------------------------------------- actions
Install(db) ==
    /\ Minutes' = db.Minutes
    /\ Hours' = db.Hours
    /\ db_last_timestamp' = db.last
    /\ memo_last_timestamp' = db.memo
    /\ mins_cache' = db.mins_cache
    /\ hours_cache' = db.hours_cache
    /\ writes' = db.log

\* The minute of the most recent save that returned normally (None: there is none).
LastSaved == IF saves = << >> THEN None ELSE saves[Len(saves)].ts

\* rrd.save(timestamp, value)
Save(timestamp, value) ==
    \E r \in {save(DbState, timestamp, value)} :
        /\ Install(r.db)
        /\ call' = [op |-> "save", table |-> "", timestamp |-> timestamp, value |-> value]
        /\ outcome' = IF r.exc = "" THEN "ok" ELSE r.exc
        /\ data' = r.data
        /\ ret' = << >>
        /\ saves' = IF r.exc = ""
                    THEN Append(saves, Sample(timestamp_minute(timestamp), value))
                    ELSE saves
        /\ raised' = (raised \/ r.exc # "")
        /\ UNCHANGED << utc_offset, backend >>

\* rrd.query(table)
Query(table) ==
    \E r \in {query(DbState, table)} :
        /\ Install(r.db)
        /\ call' = [op |-> "query", table |-> table, timestamp |-> None, value |-> None]
        /\ outcome' = "ok"
        /\ data' = NoData
        /\ ret' = r.val
        /\ UNCHANGED << utc_offset, backend, saves, raised >>

\* Time zones of the process: UTC, and one half an hour off the hour (+05:30).
UtcOffsets == {0, 19800}

\* open_database / RedisRoundRobinDb(...) on an empty store.
Init ==
    /\ utc_offset \in UtcOffsets
    /\ backend \in {"sqlite", "redis"}
    /\ Minutes = EmptyMinutes
    /\ Hours = EmptyHours
    /\ db_last_timestamp = None
    /\ memo_last_timestamp = None
    /\ mins_cache = NoMinsCache
    /\ hours_cache = NoHoursCache
    /\ call = [op |-> "open", table |-> "", timestamp |-> None, value |-> None]
    /\ outcome = "ok"
    /\ data = NoData
    /\ ret = << >>
    /\ writes = << >>
    /\ saves = << >>
    /\ raised = FALSE

\* ----------------------------------------------------------------- inputs
Values == {1, 2}
\* Timestamps of a first save: the epoch, a later minute, the last minute of an hour.
StartTimes == {0, 60, 3540}
\* Offsets of a save from the last saved minute: an hour and a minute earlier,
\* the same minute (on it and within it), the next minute, a gap of minutes, of
\* an hour, of an hour and a minute, and of more than a day.
Deltas == {-3600, -60, 0, 30, 60, 180, 3600, 3660, 90000}

SaveTimes == IF saves = << >> THEN StartTimes ELSE {LastSaved + d : d \in Deltas}

SaveStep ==
    /\ Len(saves) < MaxSaves
    /\ \E t \in SaveTimes, v \in Values : t >= 0 /\ Save(t, v)

QueryStep == \E table \in TableNames : Query(table)

Next == SaveStep \/ QueryStep

Spec == Init /\ [][Next]_vars

\* ------------------------------------------- runs without gaps (the tests' data)
\* The value saved at timestamp t in a run (tests/test_rrd.py:101 uses min*5 + 20).
RunValue(t) == 20 + (((t \div 60) * 7) % 11)

\* Saves at consecutive minutes: each exactly 60 seconds after the one before;
\* the first at the epoch, on a minute, late in an hour, or within a minute.
MinuteRunStarts == {0, 60, 3420, 3445}

MinuteRunSave ==
    /\ Len(saves) < MaxRun
    /\ ~raised
    /\ \E t \in (IF saves = << >> THEN MinuteRunStarts ELSE {LastSaved + 60}) :
          Save(t, RunValue(t))

NextMinuteRun == MinuteRunSave \/ QueryStep

SpecMinuteRun == Init /\ [][NextMinuteRun]_vars

\* Saves at consecutive hours: each exactly 3600 seconds after the one before.
HourRunStarts == {0, 60, 3600}

HourRunSave ==
    /\ Len(saves) < MaxHourRun
    /\ ~raised
    /\ \E t \in (IF saves = << >> THEN HourRunStarts ELSE {LastSaved + 3600}) :
          Save(t, RunValue(t))

NextHourRun == HourRunSave \/ QueryStep

SpecHourRun == Init /\ [][NextHourRun]_vars

\* ------------------------------- the backend's methods called directly
\* Number of saves that populate the store before and between the calls.
MaxBackendSaves == 2

\* Ring kinds passed by a caller: the two rings and a name that is neither.
TableArgs == {"minutes", "hours", "days"}

BackendStartTimes == {60, 3600}
BackendDeltas == {0, 60, 3660}

\* Timestamps asked for: the last saved minute, its hour, and one no slot holds.
AbsentTime == 7
ProbeTimes ==
    IF saves = << >> THEN {0, AbsentTime}
    ELSE {LastSaved, timestamp_hour(LastSaved), AbsentTime}

BackendSave ==
    /\ Len(saves) < MaxBackendSaves
    /\ ~raised
    /\ \E t \in (IF saves = << >> THEN BackendStartTimes
                 ELSE {LastSaved + d : d \in BackendDeltas}),
          v \in Values : Save(t, v)

\* db.read_all(table)
ReadAll(table) ==
    \E r \in {read_all(DbState, table)} :
        /\ Install(r.db)
        /\ call' = [op |-> "read_all", table |-> table, timestamp |-> None, value |-> None]
        /\ outcome' = IF r.exc = "" THEN "ok" ELSE r.exc
        /\ data' = NoData
        /\ ret' = r.val
        /\ UNCHANGED << utc_offset, backend, saves, raised >>

\* db.get_timestamp_index(timestamp, table): the index, as a one-element list.
GetTimestampIndex(table, timestamp) ==
    \E r \in {get_timestamp_index(DbState, timestamp, table, None)} :
        /\ Install(r.db)
        /\ call' = [op |-> "get_timestamp_index", table |-> table,
                    timestamp |-> timestamp, value |-> None]
        /\ outcome' = IF r.exc = "" THEN "ok" ELSE r.exc
        /\ data' = NoData
        /\ ret' = IF r.exc = "" THEN << r.val >> ELSE << >>
        /\ UNCHANGED << utc_offset, backend, saves, raised >>

\* db.get_timestamp_value(table, timestamp): the value, as a one-element list.
GetTimestampValue(table, timestamp) ==
    \E r \in {get_timestamp_value(DbState, table, timestamp)} :
        /\ Install(r.db)
        /\ call' = [op |-> "get_timestamp_value", table |-> table,
                    timestamp |-> timestamp, value |-> None]
        /\ outcome' = IF r.exc = "" THEN "ok" ELSE r.exc
        /\ data' = NoData
        /\ ret' = IF r.exc = "" THEN << r.val >> ELSE << >>
        /\ UNCHANGED << utc_offset, backend, saves, raised >>

\* db.update_timestamp(table, timestamp, value)
UpdateTimestamp(table, timestamp, value) ==
    \E r \in {update_timestamp(DbState, table, timestamp, value)} :
        /\ Install(r.db)
        /\ call' = [op |-> "update_timestamp", table |-> table,
                    timestamp |-> timestamp, value |-> value]
        /\ outcome' = IF r.exc = "" THEN "ok" ELSE r.exc
        /\ data' = NoData
        /\ ret' = << >>
        /\ UNCHANGED << utc_offset, backend, saves, raised >>

ReadAllStep == \E table \in TableArgs : ReadAll(table)
GetTimestampIndexStep ==
    \E table \in TableArgs, t \in ProbeTimes : GetTimestampIndex(table, t)
GetTimestampValueStep ==
    \E table \in TableArgs, t \in ProbeTimes : GetTimestampValue(table, t)
UpdateTimestampStep ==
    \E table \in TableArgs, t \in ProbeTimes, v \in Values : UpdateTimestamp(table, t, v)

NextBackend ==
    \/ BackendSave
    \/ ReadAllStep
    \/ GetTimestampIndexStep
    \/ GetTimestampValueStep
    \/ UpdateTimestampStep

SpecBackend == Init /\ [][NextBackend]_vars

\* ================================================================ claims
\* What the instance answers in the current state.
ObsLastTimestamp == last_timestamp(DbState).val
ObsLastHourTimestamp == last_hour_timestamp(DbState).val
ObsMinutes == minutes(DbState).val
ObsHours == hours(DbState).val

\* The history is one of successful saves in time order: no save has raised and
\* no saved minute is earlier than the one saved before it.
OrderedHistory == \A i \in 1 .. Len(saves) - 1 : saves[i].ts <= saves[i + 1].ts
CleanHistory == ~raised /\ OrderedHistory

IsPresent(e) == e.ts # None

\* C1: after successful saves, a save whose minute is strictly less than the
\* minute of the most recent successful save raises ValueError and leaves the
\* minute ring, the hour ring and last_timestamp as they were.
C1_StaleSaveRejected ==
    [][ ( /\ CleanHistory
          /\ LastSaved # None
          /\ call'.op = "save"
          /\ timestamp_minute(call'.timestamp) < LastSaved )
        => ( /\ outcome' = "ValueError"
             /\ Minutes' = Minutes
             /\ Hours' = Hours
             /\ ObsLastTimestamp' = ObsLastTimestamp ) ]_vars

\* C2: after every successful save(t, v), the 2nd, 3rd, ... included,
\* last_timestamp is the minute of t and last_hour_timestamp is its hour.
C2_LastTimestampFresh ==
    (call.op = "save" /\ outcome = "ok" /\ CleanHistory)
    => ( /\ ObsLastTimestamp = timestamp_minute(call.timestamp)
         /\ ObsLastHourTimestamp = timestamp_hour(call.timestamp) )

\* C3: in every reachable state read_all and query return exactly 60 samples of
\* the minute ring and exactly 24 of the hour ring, on both backends.
C3_RingLengths ==
    /\ Len(read_all(DbState, "minutes").val) = 60
    /\ Len(read_all(DbState, "hours").val) = 24
    /\ Len(ObsMinutes) = 60
    /\ Len(ObsHours) = 24

\* C4: after saves at consecutive minutes, query('minutes') holds its present
\* samples in strictly increasing timestamp order, each with the value saved
\* for it, and its last element is the most recent save.
C4_ConsecutiveMinutesOrdered ==
    (saves # << >> /\ CleanHistory)
    => \A q \in {ObsMinutes} : \A present \in {SelectSeq(q, IsPresent)} :
          /\ \A i \in 1 .. Len(present) - 1 : present[i].ts < present[i + 1].ts
          /\ \A i \in 1 .. Len(present) : \E k \in 1 .. Len(saves) : saves[k] = present[i]
          /\ q # << >>
          /\ q[Len(q)] = saves[Len(saves)]

\* C5: after n > 60 saves at consecutive minutes, query('minutes') is exactly
\* the 60 most recently saved (timestamp, value) pairs in chronological order.
C5_KeepsLastSixty ==
    (Len(saves) > 60 /\ CleanHistory)
    => ObsMinutes = SubSeq(saves, Len(saves) - 59, Len(saves))

\* The least value saved at the most recently saved minute, in history h.
FoldedValue(h) ==
    SetMin({h[k].val : k \in {j \in 1 .. Len(h) : h[j].ts = h[Len(h)].ts}})

\* C6: a save in the minute of the last save folds: exactly one minute slot
\* holds that minute, with the least of the values saved for it; no minute or
\* hour slot gets a new timestamp and last_timestamp stays; and the next
\* new-minute save is written to the slot right after the folded one.
C6_SameMinuteFolds ==
    [][ /\ ( ( /\ CleanHistory
               /\ LastSaved # None
               /\ call'.op = "save"
               /\ outcome' = "ok"
               /\ timestamp_minute(call'.timestamp) = LastSaved )
             => ( /\ Cardinality({i \in MinuteIds : Minutes'[i].ts = LastSaved}) = 1
                  /\ \A i \in MinuteIds :
                        Minutes'[i].ts = LastSaved => Minutes'[i].val = FoldedValue(saves')
                  /\ \A i \in MinuteIds : Minutes'[i].ts = Minutes[i].ts
                  /\ \A i \in HourIds : Hours'[i].ts = Hours[i].ts
                  /\ ObsLastTimestamp' = ObsLastTimestamp ) )
        /\ ( ( /\ CleanHistory
               /\ Len(saves) >= 2
               /\ saves[Len(saves) - 1].ts = LastSaved
               /\ call'.op = "save"
               /\ outcome' = "ok"
               /\ timestamp_minute(call'.timestamp) > LastSaved )
             => \E i \in MinuteIds :
                   /\ Minutes[i].ts = LastSaved
                   /\ Minutes'[(i + 1) % 60] = data'.minutes[1] ) ]_vars

\* The minute batch of a save of v at minute M after a save at minute L < M.
ExpectedMinuteBatch(L, M, v) ==
    LET n == IntMin(((M - L) \div 60) - 1, 59)
    IN  [i \in 1 .. n + 1 |->
            IF i <= n THEN Sample(M - 60 * (n - i + 1), None) ELSE Sample(M, v)]

\* C7: a save at minute M = L + 60*g after a save at minute L (L = 0 included)
\* writes min(g-1, 59) placeholders at M-60*min(g-1,59), ..., M-60 and then
\* (M, value), and these are the last min(g, 60) entries of query('minutes').
C7_MinuteGapFill ==
    ( /\ call.op = "save" /\ outcome = "ok" /\ CleanHistory
      /\ Len(saves) >= 2
      /\ saves[Len(saves) - 1].ts < LastSaved )
    => \A b \in {ExpectedMinuteBatch(saves[Len(saves) - 1].ts, LastSaved, call.value)} :
       \A q \in {ObsMinutes} :
          /\ data.minutes = b
          /\ Len(q) >= Len(b)
          /\ SubSeq(q, Len(q) - Len(b) + 1, Len(q)) = b

\* The least value saved in the hour of the most recent save, in history h.
HourMinimum(h) ==
    SetMin({h[k].val : k \in {j \in 1 .. Len(h) :
                timestamp_hour(h[j].ts) = timestamp_hour(h[Len(h)].ts)}})

\* C8: after successful saves the hour slot of the most recent hour holds the
\* least value saved in that hour, and a save within the hour of the last save
\* gives no hour slot a new timestamp.
C8_HourSlotMinimum ==
    [][ ( call'.op = "save" /\ outcome' = "ok" /\ CleanHistory' )
        => ( /\ \E i \in HourIds : Hours'[i].ts = timestamp_hour(LastSaved')
             /\ \A i \in HourIds :
                   Hours'[i].ts = timestamp_hour(LastSaved')
                   => Hours'[i].val = HourMinimum(saves')
             /\ ( ( LastSaved # None
                    /\ timestamp_hour(call'.timestamp) = timestamp_hour(LastSaved) )
                  => \A i \in HourIds : Hours'[i].ts = Hours[i].ts ) ) ]_vars

\* The hour batch of a save of v in hour H after a save in hour LH < H.
ExpectedHourBatch(LH, H, v) ==
    LET n == IntMin(((H - LH) \div 3600) - 1, 23)
    IN  [i \in 1 .. n + 1 |->
            IF i <= n THEN Sample(H - 3600 * (n - i + 1), None) ELSE Sample(H, v)]

\* C9: a save entering a new hour H after the last hour LH, at whatever minute
\* of H, writes one placeholder per hour strictly between LH and H (the last 23
\* at most), oldest first, and then (H, value): none for LH itself.
C9_HourGapFill ==
    ( /\ call.op = "save" /\ outcome = "ok" /\ CleanHistory
      /\ Len(saves) >= 2
      /\ timestamp_hour(saves[Len(saves) - 1].ts) < timestamp_hour(LastSaved) )
    => data.hours = ExpectedHourBatch(timestamp_hour(saves[Len(saves) - 1].ts),
                                      timestamp_hour(LastSaved), call.value)

\* C10: after saves in more than 24 consecutive hours the hour ring holds
\* exactly the 24 most recent hour entries, the newest in the slot after the
\* one of the hour before it, modulo 24.
C10_HourRingWraps ==
    (Len(saves) > 24 /\ CleanHistory)
    => /\ ObsHours = [i \in 1 .. 24 |->
                        Sample(timestamp_hour(saves[Len(saves) - 24 + i].ts),
                               saves[Len(saves) - 24 + i].val)]
       /\ \E i \in HourIds :
             /\ Hours[i].ts = timestamp_hour(saves[Len(saves) - 1].ts)
             /\ Hours[(i + 1) % 24] = Sample(timestamp_hour(LastSaved), saves[Len(saves)].val)

\* C11: in a state reached by saves, a save whose minute is not earlier than
\* last_timestamp returns normally: neither the not-found error nor any other
\* error comes out of the fold paths.
C11_SaveSucceeds ==
    [][ ( /\ ~raised
          /\ call'.op = "save"
          /\ \/ ObsLastTimestamp = None
             \/ timestamp_minute(call'.timestamp) >= ObsLastTimestamp )
        => outcome' = "ok" ]_vars

\* The history h of saves applied, in order, to a fresh instance of class
\* `kind`: the exception that stopped it ("" for none) and the instance reached.
RECURSIVE Replay(_, _)
Replay(kind, h) ==
    IF h = << >> THEN [exc |-> "", db |-> FreshDb(kind)]
    ELSE Bind({ IF prev.exc # "" THEN prev
                ELSE Bind({ [exc |-> r.exc, db |-> r.db]
                            : r \in {save(prev.db, h[Len(h)].ts, h[Len(h)].val)} })
                : prev \in {Replay(kind, SubSeq(h, 1, Len(h) - 1))} })

OtherBackend == IF backend = "sqlite" THEN "redis" ELSE "sqlite"

\* C12: the same history of saves applied to a fresh instance of the other
\* backend gives the same save outcomes, the same query('minutes') and
\* query('hours') results and the same last_timestamp as this instance gives.
C12_BackendsAgree ==
    ~raised
    => \A other \in {Replay(OtherBackend, saves)} :
          /\ other.exc = ""
          /\ minutes(other.db).val = ObsMinutes
          /\ hours(other.db).val = ObsHours
          /\ last_timestamp(other.db).val = ObsLastTimestamp

\* update_timestamp(table, timestamp, value) has acted on ring `before` giving
\* `after`, with `other` the other ring: the effect C13 states.
UpdatedInPlace(before, after, otherBefore, otherAfter, timestamp, value, result) ==
    IF \E i \in DOMAIN before : before[i].ts = timestamp
    THEN /\ result = "ok"
         /\ \E i \in DOMAIN before :
               /\ before[i].ts = timestamp
               /\ after = [before EXCEPT ![i] = Sample(timestamp, value)]
         /\ otherAfter = otherBefore
    ELSE /\ result = "ValueError"
         /\ after = before
         /\ otherAfter = otherBefore

\* C13: update_timestamp on a timestamp some slot of the ring holds overwrites
\* the value of one slot holding it and leaves every other slot, the other ring
\* and last_timestamp as they were; on a timestamp no slot holds it raises
\* ValueError and changes nothing.
C13_UpdateInPlace ==
    [][ ( call'.op = "update_timestamp" /\ call'.table \in TableNames )
        => /\ IF call'.table = "minutes"
              THEN UpdatedInPlace(Minutes, Minutes', Hours, Hours',
                                  call'.timestamp, call'.value, outcome')
              ELSE UpdatedInPlace(Hours, Hours', Minutes, Minutes',
                                  call'.timestamp, call'.value, outcome')
           /\ ObsLastTimestamp' = ObsLastTimestamp
           /\ db_last_timestamp' = db_last_timestamp ]_vars

\* An update of the hour slot of the last save, to a value other than the saved
\* one, has returned and the slot holds it.
C13_Witness ==
    /\ call.op = "update_timestamp"
    /\ call.table = "hours"
    /\ outcome = "ok"
    /\ saves # << >>
    /\ call.value # saves[Len(saves)].val
    /\ \E i \in HourIds : Hours[i] = Sample(call.timestamp, call.value)

\* get_timestamp_value(table, timestamp) on ring `ring` ended with `result` and
\* returned `returned`: the value of a slot holding the timestamp, None if none does.
GotValue(ring, timestamp, result, returned) ==
    /\ result = "ok"
    /\ IF \E i \in DOMAIN ring : ring[i].ts = timestamp
       THEN \E i \in DOMAIN ring : ring[i].ts = timestamp /\ returned = << ring[i].val >>
       ELSE returned = << None >>

\* C14: get_timestamp_value returns the value of the slot of the ring that
\* holds the timestamp, and returns None, raising nothing, when no slot of the
\* ring holds it, on both backends.
C14_GetValueOrAbsent ==
    [][ ( call'.op = "get_timestamp_value" /\ call'.table \in TableNames )
        => IF call'.table = "minutes"
           THEN GotValue(Minutes', call'.timestamp, outcome', ret')
           ELSE GotValue(Hours', call'.timestamp, outcome', ret') ]_vars

\* The calls of the backend that take a ring kind.
RingKindOps == {"read_all", "get_timestamp_index", "get_timestamp_value", "update_timestamp"}

\* C15: read_all, get_timestamp_index, get_timestamp_value and update_timestamp
\* called with a ring kind other than minutes/hours raise an invalid-argument
\* error (ValueError or the AssertionError of the name check) before any slot
\* is read or written: the rings, last_timestamp and the caches stay as they were.
C15_InvalidRingKindRejected ==
    [][ ( call'.op \in RingKindOps /\ call'.table \notin TableNames )
        => ( /\ outcome' \in {"ValueError", "AssertionError"}
             /\ ret' = << >>
             /\ UNCHANGED << Minutes, Hours, db_last_timestamp, memo_last_timestamp,
                             mins_cache, hours_cache >> ) ]_vars

\* An update of a held timestamp under a ring kind that is neither ring has
\* been rejected, on a populated store.
C15_Witness ==
    /\ call.op = "update_timestamp"
    /\ call.table \notin TableNames
    /\ outcome = "AssertionError"
    /\ saves # << >>
    /\ call.timestamp = LastSaved
    /\ \E i \in MinuteIds : Minutes[i].ts = call.timestamp

\* C16: in every reachable state every present timestamp of the minute ring is
\* a multiple of 60 and every present timestamp of the hour ring is a multiple
\* of 3600, gap-fill placeholders included.
C16_AlignedTimestamps ==
    /\ \A i \in MinuteIds : Minutes[i].ts # None => Minutes[i].ts % 60 = 0
    /\ \A i \in HourIds : Hours[i].ts # None => Hours[i].ts % 3600 = 0

\* C17: the first save on an empty store is never rejected and fills no gap:
\* it writes one minute sample (minute_ts, value) to slot 0 of the minute ring
\* and one hour sample (hour_ts, value) to slot 0 of the hour ring, and every
\* other slot stays absent.
C17_FirstSave ==
    /\ (saves = << >> => ~raised)
    /\ ( (Len(saves) = 1 /\ call.op = "save" /\ outcome = "ok")
         => /\ data.minutes = << Sample(timestamp_minute(call.timestamp), call.value) >>
            /\ data.hours = << Sample(timestamp_hour(call.timestamp), call.value) >>
            /\ Minutes = [EmptyMinutes EXCEPT
                             ![0] = Sample(timestamp_minute(call.timestamp), call.value)]
            /\ Hours = [EmptyHours EXCEPT
                           ![0] = Sample(timestamp_hour(call.timestamp), call.value)] )

\* A first save, at a timestamp within a minute late in an hour, has been written.
C17_Witness ==
    /\ Len(saves) = 1
    /\ call.op = "save"
    /\ outcome = "ok"
    /\ call.timestamp > timestamp_minute(call.timestamp)
    /\ timestamp_minute(call.timestamp) > timestamp_hour(call.timestamp)
    /\ Minutes[0].ts = timestamp_minute(call.timestamp)

\* q is the list r read onward from some position, wrapping at the end.
IsRotation(q, r) ==
    /\ Len(q) = Len(r)
    /\ \E k \in 0 .. Len(r) : q = SubSeq(r, k + 1, Len(r)) \o SubSeq(r, 1, k)

\* The present samples of q are oldest first, no timestamp twice.
Chronological(q) ==
    \A present \in {SelectSeq(q, IsPresent)} :
        \A i \in 1 .. Len(present) - 1 : present[i].ts < present[i + 1].ts

\* C18: after successful saves query(ring) is a rotation of read_all(ring) with
\* its present timestamps oldest first in strictly increasing order, and its
\* last element is the slot holding last_timestamp (minutes) or the hour of
\* last_timestamp (hours).
C18_QueryChronological ==
    (saves # << >> /\ CleanHistory)
    => /\ \A q \in {ObsMinutes} :
             /\ IsRotation(q, read_all(DbState, "minutes").val)
             /\ Chronological(q)
             /\ q # << >>
             /\ q[Len(q)].ts = ObsLastTimestamp
       /\ \A q \in {ObsHours} :
             /\ IsRotation(q, read_all(DbState, "hours").val)
             /\ Chronological(q)
             /\ q # << >>
             /\ q[Len(q)].ts = ObsLastHourTimestamp

\* C19: a new-minute save writes the k-th sample of its minute batch to slot
\* (p + k) mod 60, p being the slot the preceding successful save wrote last,
\* and overwrites no slot holding one of the 60 most recent minutes.
C19_MinuteSlotAssignment ==
    [][ ( /\ CleanHistory
          /\ LastSaved # None
          /\ call'.op = "save"
          /\ outcome' = "ok"
          /\ timestamp_minute(call'.timestamp) > LastSaved )
        => ( /\ \E p \in MinuteIds :
                   /\ Minutes[p].ts = LastSaved
                   /\ \A k \in 1 .. Len(data'.minutes) :
                         Minutes'[(p + k) % 60] = data'.minutes[k]
             /\ \A i \in MinuteIds :
                   ( /\ Minutes[i].ts # None
                     /\ Minutes[i].ts > timestamp_minute(call'.timestamp) - 3600 )
                   => Minutes'[i] = Minutes[i] ) ]_vars

\* ------------------------------------------------------------------ C20
\* The last call was a save that took the new-minute branch.
NewMinuteSave == call.op = "save" /\ data # NoData

MinuteBatch == [w |-> "batch", table |-> "minutes"]
HourBatch == [w |-> "batch", table |-> "hours"]
HourFold == [w |-> "update", table |-> "hours"]

\* Some write before the i-th write of the call is the minute batch.
MinuteBatchBefore(i) == \E j \in 1 .. (i - 1) : writes[j] = MinuteBatch

\* C20: within a single new-minute save no write to the hour ring, neither a
\* fold update of the existing hour slot nor an hour batch, is performed or
\* made durable before the minute batch of that save has been written.
C20_NoHourWriteBeforeMinuteBatch ==
    NewMinuteSave =>
        \A i \in 1 .. Len(writes) : writes[i].table = "hours" => MinuteBatchBefore(i)

\* C20, amended: within a single new-minute save the hour batch is never
\* written or made durable before the minute batch of that save has been
\* written (no commit lies between the two batches); a fold update of the
\* existing hour slot is the one hour write that comes before the minute batch.
C20_HourBatchAfterMinuteBatch ==
    NewMinuteSave =>
        \A i \in 1 .. Len(writes) :
            /\ writes[i] = HourBatch =>
                   /\ MinuteBatchBefore(i)
                   /\ \A j \in 1 .. (i - 1) : writes[j].w # "commit"
            /\ (writes[i].table = "hours" /\ ~MinuteBatchBefore(i)) => writes[i] = HourFold

\* A save after the first has entered a new hour and written both batches.
C20_Witness ==
    /\ NewMinuteSave
    /\ outcome = "ok"
    /\ Len(saves) >= 2
    /\ \E i \in 1 .. Len(writes) : writes[i] = HourBatch /\ MinuteBatchBefore(i)

\* ------------------------------------------------------------------ C21
\* What a caller can observe of an instance: the stored rings and
\* last_timestamp key, and the answers of last_timestamp and of both queries.
Observed(db) ==
    [Minutes |-> db.Minutes, Hours |-> db.Hours, last |-> db.last,
     last_timestamp |-> last_timestamp(db).val,
     minutes |-> minutes(db).val, hours |-> hours(db).val]

\* The outcome of save(timestamp, value) on an instance.
SaveOutcome(db, timestamp, value) ==
    Bind({ IF r.exc = "" THEN "ok" ELSE r.exc : r \in {save(db, timestamp, value)} })

\* C21: query(ring) never moves or modifies data: a query leaves both rings
\* and last_timestamp unchanged, a repeated query returns the same sequence,
\* and the queries made so far change the outcome of no later save or query:
\* every save ends, and the instance then looks, as on an instance that was
\* given the same saves and never queried.
C21_QueryMovesNothing ==
    [][ /\ call'.op = "query"
           => /\ UNCHANGED << Minutes, Hours, db_last_timestamp >>
              /\ ObsLastTimestamp' = ObsLastTimestamp
        /\ call.op = "query" => ret = query(DbState, call.table).val
        /\ ~raised
           => \E unqueried \in {Replay(backend, saves)} :
                 /\ Observed(DbState) = Observed(unqueried.db)
                 /\ call'.op = "save"
                    => \E o \in {SaveOutcome(unqueried.db, call'.timestamp, call'.value)} :
                          outcome' = o ]_vars

\* A query of the minute ring has been answered on an instance holding two
\* or more saved minutes, none of whose saves raised.
C21_Witness ==
    /\ call.op = "query"
    /\ call.table = "minutes"
    /\ ~raised
    /\ Len(saves) >= 2
    /\ saves[Len(saves)].ts > saves[1].ts
    /\ Len(ret) >= 2

\* ------------------------------------------------------------------ C22
\* The history of saves h with every save made on a freshly opened instance
\* over the store the previous one left, as one run of the CLI per save does.
RECURSIVE ReplayReopened(_, _)
ReplayReopened(kind, h) ==
    IF h = << >> THEN [exc |-> "", db |-> FreshDb(kind)]
    ELSE Bind({ IF prev.exc # "" THEN prev
                ELSE Bind({ [exc |-> r.exc, db |-> r.db]
                            : r \in {save(Reopen(prev.db), h[Len(h)].ts, h[Len(h)].val)} })
                : prev \in {ReplayReopened(kind, SubSeq(h, 1, Len(h) - 1))} })

\* C22: closing and re-opening the backend on the same store between
\* operations is unobservable: a history of saves run on one long-lived
\* instance gives the same save outcomes, stored rings, last_timestamp and
\* query results as the same history run with a freshly opened instance for
\* every operation.
C22_ReopenUnobservable ==
    ~raised
    => \E reopened \in {ReplayReopened(backend, saves)} :
          /\ reopened.exc = ""
          /\ Observed(Reopen(reopened.db)) = Observed(DbState)

\* ------------------------------------------------------------------ C23
\* What the instance reads of a ring, against what an instance with unset
\* caches reads of the same stored slots.
ReadsStoredSlots(db, table) ==
    /\ read_all(db, table).val = read_all(Reopen(db), table).val
    /\ \A i \in DOMAIN TableOf(db, table) :
          TableOf(db, table)[i].ts # None
          => /\ get_timestamp_value(db, table, TableOf(db, table)[i].ts).val
                = get_timestamp_value(Reopen(db), table, TableOf(db, table)[i].ts).val
             /\ get_timestamp_index(db, TableOf(db, table)[i].ts, table, None).val
                = get_timestamp_index(Reopen(db), TableOf(db, table)[i].ts, table, None).val

\* C23: in the Redis backend the in-process slot caches are never stale with
\* respect to the stored slots: a cache that is set equals the stored keys, so
\* after an update or a write batch get_timestamp_value, get_timestamp_index
\* and read_all on the same instance reflect the value just written.
C23_RedisCachesFresh ==
    backend = "redis"
    => /\ mins_cache.valid => mins_cache.data = Minutes
       /\ hours_cache.valid => hours_cache.data = Hours
       /\ ReadsStoredSlots(DbState, "minutes")
       /\ ReadsStoredSlots(DbState, "hours")

\* ------------------------------------------------------------------ C24
\* The entries of a query result that hold a timestamp, in query order.
PresentEntries(q) == SelectSeq(q, IsPresent)

\* C24: after any sequence of successful saves the present timestamps of the
\* minute ring in query order are contiguous: each is the previous one plus
\* 60, from the oldest retained minute up to the minute of the last save.
C24_MinutesContiguous ==
    (~raised /\ saves # << >>)
    => \E present \in {PresentEntries(ObsMinutes)} :
          /\ present # << >>
          /\ present[Len(present)].ts = LastSaved
          /\ \A i \in 1 .. Len(present) - 1 : present[i + 1].ts = present[i].ts + 60

====
